---- MODULE Spec2Model ----
(***************************************************************************)
(* State-machine model of the voice session engine of the App component    *)
(* (src/unnamed/part_000, lines 72-527): startConversation,                *)
(* stopConversation, the live-connection callbacks (onopen, onmessage,     *)
(* onerror, onclose), the playback callback source.onended and the effect  *)
(* that copies the status into statusRef.                                  *)
(*                                                                         *)
(* Every start() creates a new generation k of resources (two audio        *)
(* contexts, one microphone stream, one connection with its promise).      *)
(* The refs of the component hold a generation number, 0 standing for      *)
(* null.  A handler runs atomically up to its next await on something      *)
(* that takes real time (microphone permission, a connection promise that  *)
(* is still pending, AudioContext.close(), decodeAudioData); an await on   *)
(* an already settled promise or on undefined only yields to microtasks    *)
(* and the handler is taken to continue in the same step.  The promise of   *)
(* ai.live.connect is taken to resolve when the connection opens, right    *)
(* after the onopen callback, and to stay pending until then.              *)
(*                                                                         *)
(* A call of setTranscripts or setIncidentReports with an update function  *)
(* queues the function; Render is the render in which React applies the    *)
(* queue.  A text is a sequence of one-character fragments.                *)
(*                                                                         *)
(* The variables heard, turnLog, sinceStart, stopFrom, sinceReset and mark *)
(* record history; no operation reads them, except that the bounds on the  *)
(* inputs count what has been received.                                    *)
(***************************************************************************)
EXTENDS Integers, Sequences, FiniteSets, TLC

\* ---- bounds ----
MaxStarts == 2      \* start() calls in one behaviour
MaxStops == 2       \* stopConversation() invocations suspended at an await
MaxChunks == 2      \* audio chunks received in one behaviour
LifeChunks == 1     \* audio chunks received in one behaviour of Spec
LifeClock == 1      \* last tick of the device clock in Spec
MaxClock == 2       \* last tick of the device clock
MaxDur == 2         \* longest chunk duration, in clock ticks
MaxCalls == 2       \* tool calls received in one behaviour
MaxFrags == 3       \* transcription fragments received in one behaviour
MaxTurns == 2       \* TurnComplete events received in one behaviour
MaxOps == 3         \* outbound operations issued before the last audio frame
CaptureOps == 2     \* audio frames captured in one behaviour of SpecCapture
MaxFrameLen == 2    \* samples in one captured frame
SampleDen == 3      \* a sample is a multiple of 1/SampleDen, full scale SampleDen

Gens == 1..MaxStarts
Durations == 1..MaxDur

\* BotStatus (src/types.ts); THINKING is never set by the component.
BotStatus == {"IDLE", "CONNECTING", "LISTENING", "THINKING", "SPEAKING", "ERROR"}
Active == {"CONNECTING", "LISTENING", "SPEAKING"}

\* The messages of setError; "null" is the cleared message.
ErrNull == "null"
ErrStart == "err.message"
ErrProcessing == "An error occurred while processing the response"
\* The message of a handler that sets none.
NoMessage == "null"

ErrConnection == "A connection error occurred. Please try again."
ErrLost == "Connection lost unexpectedly."

\* Suspension points of stopConversation: the await of the session promise
\* of generation k, and the awaits of the two AudioContext.close() calls.
StopPoints == ({"awaitSession"} \X Gens) \cup {<<"awaitIn", 0>>, <<"awaitOut", 0>>}

\* Tool names: the four declared ones and one the switch does not know.
ToolNames == {"record_safety_incident", "send_sms_alert", "mark_team_attendance",
              "get_weather_update", "unknown_tool"}

VARIABLES
  status,                   \* useState status
  settings,                 \* useState settings
  statusRef,                \* statusRef.current
  error,                    \* useState error
  sessionPromiseRef,        \* generation of the promise held, 0 = null
  inputAudioContextRef,     \* generation of the context held, 0 = null
  outputAudioContextRef,
  mediaStreamRef,
  scriptProcessorRef,
  nStarts,                  \* generations created so far
  mic,                      \* per generation: getUserMedia / stream state
  inCtx, outCtx,            \* per generation: AudioContext.state
  conn,                     \* per generation: connection state
  opened,                   \* generations whose connect promise resolved
  stops,                    \* bag of suspended stopConversation calls
  chunks,                   \* audio chunks in arrival order
  audioSources,             \* audioSourcesRef.current (chunk numbers)
  nextStartTime,            \* nextStartTimeRef.current
  now,                      \* outputCtx.currentTime
  toolLog,                  \* tool-call batches received
  outbox,                   \* outbound operations handed to a session
  thens,                    \* per generation: operations queued on the pending promise
  posted,                   \* history: outbound operations issued so far
  currentInput,             \* per generation: the accumulator of line 253
  currentOutput,
  transcripts,              \* useState transcripts
  incidentReports,          \* useState incidentReports
  updates,                  \* update functions queued for the next render
  heard,                    \* history: fragments since the last TurnComplete
  turnLog,                  \* history: what each TurnComplete closed
  sinceStart,               \* history: stop calls since the last start()
  stopFrom,                 \* history: status at the last stop() of the user
  sinceReset,               \* history: chunks received since the last reset
  mark                      \* history: chunk count at the last Interrupted

sessVars == <<status, statusRef, error>>
refVars == <<sessionPromiseRef, inputAudioContextRef, outputAudioContextRef,
             mediaStreamRef, scriptProcessorRef>>
resVars == <<nStarts, mic, inCtx, outCtx, conn, opened, stops>>
playVars == <<chunks, audioSources, nextStartTime, now>>
toolVars == <<toolLog, outbox, thens, posted>>
textVars == <<currentInput, currentOutput, transcripts, incidentReports, updates,
              heard, turnLog>>
histVars == <<sinceStart, stopFrom, sinceReset, mark>>
vars == <<sessVars, settings, refVars, resVars, playVars, toolVars, textVars, histVars>>

\* A maximum that always takes the clock.
ClockOnly(a, b) == b

Max(a, b) == IF a >= b THEN a ELSE b

RECURSIVE SumOver(_, _)
SumOver(f, S) == IF S = {} THEN 0
                 ELSE LET x == CHOOSE y \in S : TRUE IN f[x] + SumOver(f, S \ {x})

StopsInFlight == SumOver(stops, StopPoints)

\* AppSettings, lines 14-19; the initial value of lines 95-100.
SettingFields == {"name", "voice", "avatarTheme", "language"}

SettingValues(field) ==
  CASE field = "name" -> {"Jaaved Khan", "Mitra"}
    [] field = "voice" -> {"Kore", "Puck"}
    [] field = "avatarTheme" -> {"emerald", "ruby"}
    [] field = "language" -> {"en", "es"}

DefaultSettings ==
  [name |-> "Jaaved Khan", voice |-> "Kore", avatarTheme |-> "emerald", language |-> "en"]

Init ==
  /\ status = "IDLE" /\ statusRef = "IDLE" /\ error = ErrNull
  /\ settings = DefaultSettings
  /\ sessionPromiseRef = 0 /\ inputAudioContextRef = 0 /\ outputAudioContextRef = 0
  /\ mediaStreamRef = 0 /\ scriptProcessorRef = 0
  /\ nStarts = 0
  /\ mic = [k \in Gens |-> "none"]
  /\ inCtx = [k \in Gens |-> "none"]
  /\ outCtx = [k \in Gens |-> "none"]
  /\ conn = [k \in Gens |-> "none"]
  /\ opened = {}
  /\ stops = [p \in StopPoints |-> 0]
  /\ chunks = <<>> /\ audioSources = {} /\ nextStartTime = 0 /\ now = 0
  /\ toolLog = <<>> /\ outbox = <<>> /\ thens = [k \in Gens |-> <<>>] /\ posted = 0
  /\ currentInput = [k \in Gens |-> <<>>] /\ currentOutput = [k \in Gens |-> <<>>]
  /\ transcripts = <<>> /\ incidentReports = <<>> /\ updates = <<>>
  /\ heard = [input |-> <<>>, output |-> <<>>] /\ turnLog = <<>>
  /\ sinceStart = "none" /\ stopFrom = "none" /\ sinceReset = {} /\ mark = -1


\* ---- stopConversation (lines 189-227) ----

\* The refs and resources stopConversation works on, as one record, so that
\* its steps compose within one handler; log lists the teardown steps the
\* handler has carried out, in the order in which they took effect.
Heap ==
  [sp |-> sessionPromiseRef, ms |-> mediaStreamRef, proc |-> scriptProcessorRef,
   inRef |-> inputAudioContextRef, outRef |-> outputAudioContextRef,
   mic |-> mic, inCtx |-> inCtx, outCtx |-> outCtx, conn |-> conn, stops |-> stops,
   log |-> <<>>]

Did(h, step) == [h EXCEPT !.log = Append(@, step)]

SetHeap(h) ==
  /\ sessionPromiseRef' = h.sp
  /\ mediaStreamRef' = h.ms
  /\ scriptProcessorRef' = h.proc
  /\ inputAudioContextRef' = h.inRef
  /\ outputAudioContextRef' = h.outRef
  /\ mic' = h.mic
  /\ inCtx' = h.inCtx
  /\ outCtx' = h.outCtx
  /\ conn' = h.conn
  /\ stops' = h.stops

Suspend(h, p) == [h EXCEPT !.stops[p] = @ + 1]

\* lines 225-226: both context refs are set to null.
StopClearRefs(h) == [h EXCEPT !.inRef = 0, !.outRef = 0]

\* line 223: close the context the ref holds NOW unless its state is closed;
\* close() sets the state at once and its promise resolves later.
StopCloseOutput(h) ==
  LET c == h.outRef IN
  IF c # 0 /\ h.outCtx[c] # "closed"
  THEN Suspend(Did([h EXCEPT !.outCtx[c] = "closed"], "contexts"), <<"awaitOut", 0>>)
  ELSE StopClearRefs(h)

\* line 222
StopCloseInput(h) ==
  LET c == h.inRef IN
  IF c # 0 /\ h.inCtx[c] # "closed"
  THEN Suspend(Did([h EXCEPT !.inCtx[c] = "closed"], "contexts"), <<"awaitIn", 0>>)
  ELSE StopCloseOutput(h)

\* lines 214-220: stop the tracks of the stream the ref holds, clear the
\* stream ref, disconnect and clear the script processor.
StopRelease(h) ==
  LET h1 == IF h.ms # 0
            THEN Did([h EXCEPT !.mic[h.ms] = "stopped", !.ms = 0], "microphone")
            ELSE h
      h2 == IF h1.proc # 0 THEN Did([h1 EXCEPT !.proc = 0], "processor") ELSE h1
  IN StopCloseInput(h2)

\* A session block that closes the connection after the devices are released.
StopCloseSessionLate(h, k) ==
  LET r == StopRelease(h) IN
  Did([r EXCEPT !.conn[k] = IF @ = "open" THEN "closing" ELSE @, !.sp = 0], "connection")

\* lines 206-211: session.close() on the awaited session, then the finally
\* clause clears whatever promise the ref holds at that moment.
StopCloseSession(h, k) ==
  StopRelease(Did([h EXCEPT !.conn[k] = IF @ = "open" THEN "closing" ELSE @,
                            !.sp = 0], "connection"))

\* lines 203-205: await the promise the ref holds; a pending promise
\* suspends the call.
StopSession(h) ==
  LET k == h.sp IN
  IF k = 0 THEN StopRelease(h)
  ELSE IF k \in opened THEN StopCloseSession(h, k)
  ELSE Suspend(h, <<"awaitSession", k>>)

\* lines 194-196 and 199-200 as steps of the handler
StopSources(h) == Did(h, "sources")

StopVisualization(h) == Did(h, "visualization")

\* lines 194-196 applied to the chunk table: source.stop() for every source
\* of the pending set.
StoppedChunks ==
  [i \in DOMAIN chunks |->
     IF i \in audioSources THEN [chunks[i] EXCEPT !.st = "stopped"] ELSE chunks[i]]

\* A stopConversation() that brings the cursor up to the clock instead of
\* zeroing it.
CallStopCursorNow(h, st, who) ==
  /\ StopsInFlight < MaxStops
  /\ status' = st
  /\ chunks' = StoppedChunks
  /\ audioSources' = {}
  /\ nextStartTime' = Max(nextStartTime, now)
  /\ SetHeap(StopSession(StopVisualization(StopSources(h))))
  /\ sinceStart' = IF who = "user" \/ sinceStart = "user" THEN "user" ELSE "internal"
  /\ sinceReset' = {}
  /\ mark' = -1

\* stopConversation() called on heap h by a handler whose last setStatus
\* leaves st: the synchronous part up to the first await that takes time.
\* who is "user" for the stop button and "internal" for the error paths.
CallStop(h, st, who) ==
  /\ StopsInFlight < MaxStops
  /\ status' = st
  /\ chunks' = StoppedChunks
  /\ audioSources' = {}
  /\ nextStartTime' = 0
  /\ SetHeap(StopSession(StopVisualization(StopSources(h))))
  /\ sinceStart' = IF who = "user" \/ sinceStart = "user" THEN "user" ELSE "internal"
  /\ sinceReset' = {}
  /\ mark' = -1

\* The stop button (lines 518-521), shown while the status is neither IDLE
\* nor ERROR: stopConversation() ends with status IDLE (line 190).
stopConversation ==
  /\ status \notin {"IDLE", "ERROR"}
  /\ CallStop(Heap, "IDLE", "user")
  /\ stopFrom' = status
  /\ UNCHANGED <<statusRef, error, nStarts, opened, now, toolVars, textVars, settings>>

\* A comparison that takes any difference for one that needs a restart.
AnyChange(oldSettings, newSettings) == oldSettings # newSettings

\* lines 145-148
requiresRestart(oldSettings, newSettings) ==
  \/ oldSettings.voice # newSettings.voice
  \/ oldSettings.language # newSettings.language
  \/ oldSettings.name # newSettings.name

\* handleSettingsChange, lines 131-155: the settings are replaced, and
\* stopConversation() is called when the change requires a restart and
\* statusRef holds an active status.
handleSettingsChange(newSettings) ==
  /\ settings' = newSettings
  /\ IF requiresRestart(settings, newSettings) /\ statusRef \notin {"IDLE", "ERROR"}
     THEN /\ CallStop(Heap, "IDLE", "user")
          /\ stopFrom' = status
     ELSE UNCHANGED <<status, refVars, mic, inCtx, outCtx, conn, stops, chunks,
                      audioSources, nextStartTime, histVars>>
  /\ UNCHANGED <<statusRef, error, nStarts, opened, now, toolVars, textVars>>

\* handleFieldChange of SettingsPanel.tsx, lines 45-50: the change event of
\* one field of the panel, whose inputs show the settings of this render.
handleFieldChange(field, value) ==
  /\ value # settings[field]
  /\ handleSettingsChange([settings EXCEPT ![field] = value])

\* The promise of AudioContext.close() awaited at line 222 or 223 rejects:
\* the await throws and the call ends there, nothing catching it.
CloseRejected(p) ==
  /\ p[1] \in {"awaitIn", "awaitOut"}
  /\ stops[p] > 0
  /\ stops' = [stops EXCEPT ![p] = @ - 1]
  /\ UNCHANGED <<sessVars, refVars, nStarts, mic, inCtx, outCtx, conn, opened,
                 playVars, toolVars, textVars, settings, histVars>>

\* A suspended stopConversation() call resumes after its await.
ResumeStop(p) ==
  /\ stops[p] > 0
  /\ LET h == [Heap EXCEPT !.stops[p] = @ - 1] IN
       CASE p[1] = "awaitSession" -> p[2] \in opened /\ SetHeap(StopCloseSession(h, p[2]))
         [] p[1] = "awaitIn" -> SetHeap(StopCloseOutput(h))
         [] p[1] = "awaitOut" -> SetHeap(StopClearRefs(h))
  /\ UNCHANGED <<sessVars, nStarts, opened, playVars, toolVars, textVars, settings, histVars>>

\* ---- startConversation (lines 240-414) ----

\* The start button (lines 514-517), shown while the status is IDLE or
\* ERROR: lines 242-248 up to the await of getUserMedia.
startConversation ==
  /\ status \in {"IDLE", "ERROR"}
  /\ nStarts < MaxStarts
  /\ LET k == nStarts + 1 IN
       /\ nStarts' = k
       /\ status' = "CONNECTING"
       /\ error' = ErrNull
       /\ inputAudioContextRef' = k
       /\ outputAudioContextRef' = k
       /\ inCtx' = [inCtx EXCEPT ![k] = "running"]
       /\ outCtx' = [outCtx EXCEPT ![k] = "running"]
       /\ mic' = [mic EXCEPT ![k] = "pending"]
  /\ sinceStart' = "none"
  /\ UNCHANGED <<statusRef, sessionPromiseRef, mediaStreamRef, scriptProcessorRef,
                 conn, opened, stops, playVars, toolVars, textVars, settings, stopFrom,
                 sinceReset, mark>>

\* getUserMedia resolves: lines 248-255, the stream ref is set and
\* ai.live.connect is called, its promise stored in the ref.
MicGranted(k) ==
  /\ mic[k] = "pending"
  /\ mic' = [mic EXCEPT ![k] = "live"]
  /\ mediaStreamRef' = k
  /\ conn' = [conn EXCEPT ![k] = "connecting"]
  /\ sessionPromiseRef' = k
  /\ currentInput' = [currentInput EXCEPT ![k] = <<>>]
  /\ currentOutput' = [currentOutput EXCEPT ![k] = <<>>]
  /\ UNCHANGED <<sessVars, inputAudioContextRef, outputAudioContextRef,
                 scriptProcessorRef, nStarts, inCtx, outCtx, opened, stops,
                 playVars, toolVars, transcripts, incidentReports, updates, heard,
                 turnLog, histVars, settings>>

\* getUserMedia rejects: the catch clause, lines 409-413: setError,
\* setStatus(ERROR), then stopConversation() whose line 190 sets IDLE.
MicDenied(k) ==
  /\ mic[k] = "pending"
  /\ error' = ErrStart
  /\ CallStop([Heap EXCEPT !.mic[k] = "denied"], "IDLE", "internal")
  /\ UNCHANGED <<statusRef, nStarts, opened, now, toolVars, textVars, settings, stopFrom>>

\* getUserMedia resolves and the code that follows throws before the promise
\* of connect is stored (the client constructor of line 250, or connect
\* itself): the stream ref is set, then the catch clause runs.
ConnectFails(k) ==
  /\ mic[k] = "pending"
  /\ error' = ErrStart
  /\ CallStop([Heap EXCEPT !.mic[k] = "live", !.ms = k], "IDLE", "internal")
  /\ UNCHANGED <<statusRef, nStarts, opened, now, toolVars, textVars, settings, stopFrom>>

\* ---- the callbacks of ai.live.connect (lines 257-397) ----

\* sessionPromiseRef.current?.then(session => session.send...(op)), lines
\* 285 and 351: nothing when the ref is null, queued while the promise is
\* pending, handed to the session when it is open, lost when it is not.
\* Each operation issued is stamped with its rank among those issued.
PostFirst(op) ==
  LET k == sessionPromiseRef
      stamped == [op EXCEPT !.seq = posted + 1]
  IN
  IF k = 0 THEN UNCHANGED <<outbox, thens, posted>>
  ELSE /\ posted' = posted + 1
       /\ IF k \notin opened
          THEN thens' = [thens EXCEPT ![k] = <<stamped>> \o @] /\ UNCHANGED outbox
          ELSE IF conn[k] = "open"
          THEN outbox' = Append(outbox, [stamped EXCEPT !.sess = k]) /\ UNCHANGED thens
          ELSE UNCHANGED <<outbox, thens>>

Post(op) ==
  LET k == sessionPromiseRef
      stamped == [op EXCEPT !.seq = posted + 1]
  IN
  IF k = 0 THEN UNCHANGED <<outbox, thens, posted>>
  ELSE /\ posted' = posted + 1
       /\ IF k \notin opened
          THEN thens' = [thens EXCEPT ![k] = Append(@, stamped)] /\ UNCHANGED outbox
          ELSE IF conn[k] = "open"
          THEN outbox' = Append(outbox, [stamped EXCEPT !.sess = k]) /\ UNCHANGED thens
          ELSE UNCHANGED <<outbox, thens>>

\* onopen, lines 258-296; the promise of connect resolves right after the
\* callback, which hands over the operations queued on it.
OnOpen(k) ==
  /\ conn[k] = "connecting"
  /\ conn' = [conn EXCEPT ![k] = "open"]
  /\ opened' = opened \cup {k}
  /\ IF inputAudioContextRef = 0 \/ mediaStreamRef = 0
     THEN UNCHANGED <<status, scriptProcessorRef>>
     ELSE status' = "LISTENING" /\ scriptProcessorRef' = k
  /\ outbox' = outbox \o [i \in DOMAIN thens[k] |-> [thens[k][i] EXCEPT !.sess = k]]
  /\ thens' = [thens EXCEPT ![k] = <<>>]
  /\ UNCHANGED <<statusRef, error, sessionPromiseRef, inputAudioContextRef,
                 outputAudioContextRef, mediaStreamRef, nStarts, mic, inCtx, outCtx,
                 stops, playVars, toolLog, posted, textVars, settings, histVars>>

\* The conversion of an assignment to an Int16Array element: the number is
\* truncated toward zero, then taken modulo 2^16 into -32768..32767.
TruncDiv(a, d) == IF a >= 0 THEN a \div d ELSE -((-a) \div d)

ToInt16(v) == ((v + 32768) % 65536) - 32768

\* line 279, for the sample n/SampleDen
Scale == 32768

ToPcm(n) == ToInt16(TruncDiv(n * Scale, SampleDen))

\* onaudioprocess, lines 274-286, for one frame of samples: fired while the
\* processor of the ref is connected and its context, the one the ref holds,
\* is running.  The payload is the Int16Array before its byte encoding;
\* proc is the connection whose onopen created the processor.
OnAudioProcess(inputData) ==
  /\ scriptProcessorRef # 0
  /\ inputAudioContextRef # 0
  /\ inCtx[inputAudioContextRef] = "running"
  /\ posted < MaxOps
  /\ Post([sess |-> 0, seq |-> 0, kind |-> "audio", proc |-> scriptProcessorRef,
           samples |-> inputData,
           data |-> [i \in DOMAIN inputData |-> ToPcm(inputData[i])]])
  /\ UNCHANGED <<sessVars, settings, refVars, resVars, playVars, toolLog, textVars,
                 histVars>>

\* The switch of lines 319-344: a declared tool reads a property of fc.args
\* and throws a TypeError when the call carries no args.
DeclaredTools == {"record_safety_incident", "send_sms_alert", "mark_team_attendance",
                  "get_weather_update"}

\* fc.args when the call carries none.
NoArgs == [undefined |-> TRUE]

Faults(fc) == fc.name \in DeclaredTools /\ fc.args = NoArgs

ToolResult(fc) ==
  CASE fc.name = "record_safety_incident" -> "Incident recorded successfully."
    [] fc.name = "send_sms_alert" -> "Alert sent to recipient."
    [] fc.name = "mark_team_attendance" -> "Team attendance has been marked."
    [] fc.name = "get_weather_update" -> "The weather is clear."
    [] OTHER -> "Action completed."

\* line 348, mapped over the batch (line 314)
FunctionResponses(calls) ==
  [i \in DOMAIN calls |->
     [id |-> calls[i].id, name |-> calls[i].name, result |-> ToolResult(calls[i])]]

\* The calls the map of line 314 handles before a fault ends it.
FirstFault(calls) ==
  IF \E i \in DOMAIN calls : Faults(calls[i])
  THEN CHOOSE i \in DOMAIN calls :
         Faults(calls[i]) /\ \A j \in 1..(i - 1) : ~Faults(calls[j])
  ELSE Len(calls) + 1

Handled(calls) == SubSeq(calls, 1, FirstFault(calls) - 1)

\* A trim that removes nothing.
TrimNothing(t) == t

\* String.prototype.trim on a text, a sequence of one-character fragments.
RECURSIVE TrimStart(_)
TrimStart(t) == IF t # <<>> /\ Head(t) = " " THEN TrimStart(Tail(t)) ELSE t

RECURSIVE TrimEnd(_)
TrimEnd(t) ==
  IF t # <<>> /\ t[Len(t)] = " " THEN TrimEnd(SubSeq(t, 1, Len(t) - 1)) ELSE t

Trim(t) == TrimEnd(TrimStart(t))

\* The update functions handed to setTranscripts and setIncidentReports.
\* The function of lines 308 and 309 reads its accumulator when React runs
\* it: at the call when the component has no update pending (eager), else
\* during the next render.  The value it would yield at the call is text.
TurnUpdate(speaker, k, eager, text) ==
  [kind |-> "transcript", speaker |-> speaker, sess |-> k, eager |-> eager,
   text |-> IF eager THEN text ELSE <<>>, incident |-> NoArgs]

\* line 346: the system turn of a tool call; sysText is built before the call.
SystemTurn(fc) ==
  [kind |-> "transcript", speaker |-> "system", sess |-> 0, eager |-> TRUE,
   text |-> <<fc.name>>, incident |-> NoArgs]

\* line 323: { ...fc.args, timestamp }
IncidentRecord(fc) ==
  [f \in DOMAIN fc.args \cup {"timestamp"} |->
     IF f = "timestamp" THEN "new Date().toISOString()" ELSE fc.args[f]]

IncidentUpdate(fc) ==
  [kind |-> "incident", speaker |-> "system", sess |-> 0, eager |-> TRUE,
   text |-> <<>>, incident |-> IncidentRecord(fc)]

\* lines 319-346 for one call that does not fault
ToolUpdates(fc) ==
  (IF fc.name = "record_safety_incident" THEN <<IncidentUpdate(fc)>> ELSE <<>>)
    \o <<SystemTurn(fc)>>

RECURSIVE ToolUpdatesOf(_)
ToolUpdatesOf(calls) ==
  IF calls = <<>> THEN <<>>
  ELSE ToolUpdates(Head(calls)) \o ToolUpdatesOf(Tail(calls))

\* Transcription fragments received so far.
NumFrags ==
  Len(heard.input) + Len(heard.output)
    + SumOver([i \in DOMAIN turnLog |-> Len(turnLog[i].input) + Len(turnLog[i].output)],
              DOMAIN turnLog)

\* The catch clause of onmessage, lines 377-382.
MessageFault ==
  /\ error' = ErrProcessing
  /\ CallStop(Heap, "ERROR", "internal")

\* onmessage, lines 297-383, for one message m delivered by connection k.
\* m.interrupted is serverContent.interrupted, m.output and m.input the text
\* of the transcriptions (empty when absent), m.turnComplete the flag,
\* m.calls the function calls of toolCall (empty when absent), m.audio the
\* duration of the inline audio (0 when absent).  The parts run in the order
\* of the code; a fault in the tool part enters the catch clause, what the
\* handler did before it stays done.
OnMessage(k, m) ==
  /\ conn[k] = "open"
  /\ m.audio > 0 => Len(chunks) < MaxChunks
  /\ NumFrags + Len(m.input) + Len(m.output) <= MaxFrags
  /\ m.turnComplete => Len(turnLog) < MaxTurns
  /\ toolLog' = IF m.calls = <<>> THEN toolLog
                ELSE Append(toolLog, [sess |-> k, st |-> status, calls |-> m.calls])
  /\ LET out1 == currentOutput[k] \o m.output
         in1 == currentInput[k] \o m.input
         heard1 == [input |-> heard.input \o m.input, output |-> heard.output \o m.output]
         userTurn == m.turnComplete /\ Trim(in1) # <<>>
         botTurn == m.turnComplete /\ Trim(out1) # <<>>
     IN /\ currentOutput' = [currentOutput EXCEPT ![k] = IF m.turnComplete THEN <<>> ELSE out1]
        /\ currentInput' = [currentInput EXCEPT ![k] = IF m.turnComplete THEN <<>> ELSE in1]
        /\ heard' = IF m.turnComplete THEN [input |-> <<>>, output |-> <<>>] ELSE heard1
        /\ turnLog' = IF m.turnComplete
                      THEN Append(turnLog, [sess |-> k, input |-> heard1.input,
                                            output |-> heard1.output])
                      ELSE turnLog
        /\ \E eager \in (IF updates = <<>> /\ (userTurn \/ botTurn) THEN BOOLEAN ELSE {FALSE}) :
             updates' = updates
               \o (IF userTurn THEN <<TurnUpdate("user", k, eager, Trim(in1))>> ELSE <<>>)
               \o (IF botTurn
                   THEN <<TurnUpdate("bot", k, eager /\ ~userTurn, Trim(out1))>> ELSE <<>>)
               \o ToolUpdatesOf(Handled(m.calls))
        /\ UNCHANGED <<transcripts, incidentReports, settings>>
  /\ IF \E i \in DOMAIN m.calls : Faults(m.calls[i])
     THEN /\ MessageFault
          /\ UNCHANGED <<statusRef, nStarts, opened, now, outbox, thens, posted, stopFrom>>
     ELSE LET chunks1 == IF m.interrupted THEN StoppedChunks ELSE chunks
              cursor1 == IF m.interrupted THEN 0 ELSE nextStartTime
              fresh1 == IF m.interrupted THEN {} ELSE sinceReset
              outputCtx == outputAudioContextRef
              play == m.audio > 0 /\ outputCtx # 0
          IN /\ audioSources' = IF m.interrupted THEN {} ELSE audioSources
             /\ mark' = IF m.interrupted THEN Len(chunks) ELSE mark
             /\ IF m.calls = <<>> THEN UNCHANGED <<outbox, thens, posted>>
                ELSE Post([sess |-> 0, seq |-> 0, kind |-> "toolResponse",
                           responses |-> FunctionResponses(m.calls)])
             /\ status' = IF play THEN "SPEAKING" ELSE status
             /\ nextStartTime' = IF play THEN Max(cursor1, now) ELSE cursor1
             /\ chunks' = IF play
                          THEN Append(chunks1, [dur |-> m.audio, st |-> "decoding", start |-> 0,
                                                at |-> now, gen |-> outputCtx])
                          ELSE chunks1
             /\ sinceReset' = IF play THEN fresh1 \cup {Len(chunks) + 1} ELSE fresh1
             /\ UNCHANGED <<statusRef, error, refVars, resVars, now, sinceStart, stopFrom>>

\* The render that follows state updates: React runs the queued update
\* functions in order; one that was not run at its call reads the
\* accumulator of its session as it is now.
Rendered(u) ==
  [speaker |-> u.speaker,
   text |-> IF u.eager THEN u.text
            ELSE IF u.speaker = "user" THEN Trim(currentInput[u.sess])
            ELSE Trim(currentOutput[u.sess])]

RECURSIVE RenderedTurns(_)
RenderedTurns(us) ==
  IF us = <<>> THEN <<>>
  ELSE (IF Head(us).kind = "transcript" THEN <<Rendered(Head(us))>> ELSE <<>>)
         \o RenderedTurns(Tail(us))

RECURSIVE RenderedIncidents(_)
RenderedIncidents(us) ==
  IF us = <<>> THEN <<>>
  ELSE (IF Head(us).kind = "incident" THEN <<Head(us).incident>> ELSE <<>>)
         \o RenderedIncidents(Tail(us))

\* A render that puts the new entries before the old ones.
RenderNewestFirst ==
  /\ updates # <<>>
  /\ transcripts' = RenderedTurns(updates) \o transcripts
  /\ incidentReports' = RenderedIncidents(updates) \o incidentReports
  /\ updates' = <<>>
  /\ UNCHANGED <<sessVars, refVars, resVars, playVars, toolVars, currentInput,
                 currentOutput, heard, turnLog, histVars, settings>>

Render ==
  /\ updates # <<>>
  /\ transcripts' = transcripts \o RenderedTurns(updates)
  /\ incidentReports' = incidentReports \o RenderedIncidents(updates)
  /\ updates' = <<>>
  /\ UNCHANGED <<sessVars, refVars, resVars, playVars, toolVars, currentInput,
                 currentOutput, heard, turnLog, histVars, settings>>

\* handleClearHistory, lines 175-183, when the user confirms: both lists
\* are set to the empty list; the two values come after the update
\* functions still queued, so that the render leaves both lists empty.
handleClearHistory ==
  /\ transcripts' = <<>>
  /\ incidentReports' = <<>>
  /\ updates' = <<>>
  /\ UNCHANGED <<sessVars, refVars, resVars, playVars, toolVars, currentInput,
                 currentOutput, heard, turnLog, histVars, settings>>

\* decodeAudioData of ./utils/audioUtils, awaited at line 360: an
\* asynchronous operation on one chunk.  The calls in flight are independent
\* promises, so any of them may be the next to resolve.
DecodePending(i) == i \in DOMAIN chunks /\ chunks[i].st = "decoding"

\* The continuation of onmessage after await decodeAudioData, lines 361-375,
\* for chunk i: the source starts at the cursor, which then advances.
DecodeDone(i) ==
  /\ DecodePending(i)
  /\ chunks' = [chunks EXCEPT ![i].st = "playing", ![i].start = nextStartTime]
  /\ nextStartTime' = nextStartTime + chunks[i].dur
  /\ audioSources' = audioSources \cup {i}
  /\ UNCHANGED <<sessVars, refVars, resVars, now, toolVars, textVars, settings, histVars>>

\* An ended event that is delivered only for a source that played to its end.
OnEndedPlayedOut(i) ==
  /\ i \in DOMAIN chunks
  /\ outCtx[chunks[i].gen] = "running"
  /\ chunks[i].st = "playing" /\ now >= chunks[i].start + chunks[i].dur
  /\ chunks' = [chunks EXCEPT ![i].st = "ended"]
  /\ audioSources' = audioSources \ {i}
  /\ status' = IF audioSources \ {i} = {} THEN "LISTENING" ELSE status
  /\ UNCHANGED <<statusRef, error, refVars, resVars, nextStartTime, now, toolVars,
                 textVars, settings, histVars>>

\* source.onended, lines 365-371: fired when the source has played to its
\* end or has been stopped, while its context is running.
OnEnded(i) ==
  /\ i \in DOMAIN chunks
  /\ outCtx[chunks[i].gen] = "running"
  /\ \/ chunks[i].st = "stopped"
     \/ chunks[i].st = "playing" /\ now >= chunks[i].start + chunks[i].dur
  /\ chunks' = [chunks EXCEPT ![i].st = "ended"]
  /\ audioSources' = audioSources \ {i}
  /\ status' = IF audioSources \ {i} = {} THEN "LISTENING" ELSE status
  /\ UNCHANGED <<statusRef, error, refVars, resVars, nextStartTime, now, toolVars,
                 textVars, settings, histVars>>

\* onerror, lines 384-389
OnError(k) ==
  /\ conn[k] \in {"connecting", "open"}
  /\ error' = ErrConnection
  /\ CallStop([Heap EXCEPT !.conn[k] = "erred"], "ERROR", "internal")
  /\ UNCHANGED <<statusRef, nStarts, opened, now, toolVars, textVars, settings, stopFrom>>

\* onclose, lines 390-396: the close event of connection k, whether the
\* remote end closed it, session.close() did, or an error did.
OnClose(k) ==
  /\ conn[k] \in {"connecting", "open", "closing", "erred"}
  /\ LET h == [Heap EXCEPT !.conn[k] = "closed"] IN
       IF statusRef # "IDLE" /\ statusRef # "ERROR"
       THEN /\ error' = ErrLost
            /\ CallStop(h, "ERROR", "internal")
       ELSE /\ SetHeap(h)
            /\ UNCHANGED <<status, error, chunks, audioSources, nextStartTime,
                           sinceStart, sinceReset, mark>>
  /\ UNCHANGED <<statusRef, nStarts, opened, now, toolVars, textVars, settings, stopFrom>>

\* The effect of lines 171-173, run after the render that follows a
\* status change.
SyncStatusRef ==
  /\ statusRef # status
  /\ statusRef' = status
  /\ UNCHANGED <<status, error, refVars, resVars, playVars, toolVars, textVars, settings, histVars>>

\* The device clock advances.
Tick ==
  /\ now < MaxClock
  /\ now' = now + 1
  /\ UNCHANGED <<sessVars, refVars, resVars, chunks, audioSources, nextStartTime,
                 toolVars, textVars, settings, histVars>>

\* ---- inputs ----
NumCalls == SumOver([i \in DOMAIN toolLog |-> Len(toolLog[i].calls)], DOMAIN toolLog)

\* Tool-call batches of n calls with fresh ids, names from N.
\* The args a call may carry: none, or an object with the properties of
\* record_safety_incident.
Descriptions == {"rockfall", "gas leak"}
Locations == {"tunnel B"}
ArgValues == {NoArgs} \cup {[description |-> d, location |-> l] :
                              d \in Descriptions, l \in Locations}

Batches(n, N) ==
  { [i \in 1..n |-> [id |-> NumCalls + i, name |-> nm[i], args |-> ar[i]]] :
      nm \in [1..n -> N], ar \in [1..n -> ArgValues] }

Message(interrupted, calls, audio) ==
  [interrupted |-> interrupted, calls |-> calls, audio |-> audio,
   input |-> <<>>, output |-> <<>>, turnComplete |-> FALSE]

\* Transcription fragments and TurnComplete.
Fragments == {<<"a">>, <<"b">>, <<" ">>}
TextMessages ==
  { [Message(FALSE, <<>>, 0) EXCEPT !.input = t] : t \in Fragments }
    \cup { [Message(FALSE, <<>>, 0) EXCEPT !.output = t] : t \in Fragments }
    \cup { [Message(FALSE, <<>>, 0) EXCEPT !.turnComplete = TRUE] }

Interrupted == Message(TRUE, <<>>, 0)
AudioMessages == { Message(FALSE, <<>>, d) : d \in Durations }
ToolMessages(N) ==
  { Message(FALSE, b, 0) :
      b \in UNION { Batches(n, N) : n \in 1..(MaxCalls - NumCalls) } }

\* Captured frames: samples from -1.0 to +1.0.
Samples == (-SampleDen)..SampleDen
Frames == UNION { [1..n -> Samples] : n \in 1..MaxFrameLen }

\* ---- specifications ----

\* Spec, the session lifecycle: every operation, with Interrupted messages
\* and audio chunks of one tick, at most LifeChunks chunks and a clock that
\* stops at LifeClock.
Messages == {Interrupted, Message(FALSE, <<>>, 1)}

DeliverMessage(k) ==
  \E m \in Messages : (m.audio > 0 => Len(chunks) < LifeChunks) /\ OnMessage(k, m)

LifeTick == now < LifeClock /\ Tick

Next ==
  \/ startConversation
  \/ \E k \in Gens : MicGranted(k)
  \/ \E k \in Gens : MicDenied(k)
  \/ stopConversation
  \/ \E p \in StopPoints : ResumeStop(p)
  \/ \E k \in Gens : OnOpen(k)
  \/ \E k \in Gens : DeliverMessage(k)
  \/ \E i \in 1..MaxChunks : DecodeDone(i)
  \/ \E i \in 1..MaxChunks : OnEnded(i)
  \/ \E k \in Gens : OnError(k)
  \/ \E k \in Gens : OnClose(k)
  \/ SyncStatusRef
  \/ LifeTick

Spec == Init /\ [][Next]_vars

\* The first start() of the component.
FirstStart == nStarts = 0 /\ startConversation

\* SpecPlay, playback within the first session: audio chunks of every
\* duration and Interrupted messages, decodes completing in any order.
DeliverAudio(k) ==
  \E m \in {Interrupted} \cup AudioMessages : OnMessage(k, m)

NextPlay ==
  \/ FirstStart
  \/ \E k \in Gens : MicGranted(k)
  \/ \E k \in Gens : OnOpen(k)
  \/ \E k \in Gens : DeliverAudio(k)
  \/ \E i \in 1..MaxChunks : DecodeDone(i)
  \/ \E i \in 1..MaxChunks : OnEnded(i)
  \/ stopConversation
  \/ \E p \in StopPoints : ResumeStop(p)
  \/ SyncStatusRef
  \/ Tick

SpecPlay == Init /\ [][NextPlay]_vars

\* SpecTools, tool dispatch within the first session: batches of tool calls
\* with every tool name, with and without args.
DeliverToolCall(k) ==
  \E m \in ToolMessages(ToolNames) : OnMessage(k, m)

NextTools ==
  \/ FirstStart
  \/ \E k \in Gens : MicGranted(k)
  \/ \E k \in Gens : OnOpen(k)
  \/ \E k \in Gens : DeliverToolCall(k)
  \/ stopConversation
  \/ \E p \in StopPoints : ResumeStop(p)
  \/ \E k \in Gens : OnClose(k)
  \/ SyncStatusRef
  \/ Render

SpecTools == Init /\ [][NextTools]_vars

\* SpecText, transcription within the first session: fragments of both
\* directions and TurnComplete, renders at any later moment.
DeliverText(k) ==
  \E m \in TextMessages : OnMessage(k, m)

NextText ==
  \/ FirstStart
  \/ \E k \in Gens : MicGranted(k)
  \/ \E k \in Gens : OnOpen(k)
  \/ \E k \in Gens : DeliverText(k)
  \/ Render

SpecText == Init /\ [][NextText]_vars

\* SpecTeardown, the lifecycle of the first session with, besides the
\* operations of Spec, the stop of handleSettingsChange, a connect call that
\* throws and close() promises that reject.
NextTeardown ==
  \/ FirstStart
  \/ \E k \in Gens : MicGranted(k)
  \/ \E k \in Gens : MicDenied(k)
  \/ \E k \in Gens : ConnectFails(k)
  \/ stopConversation
  \/ \E field \in SettingFields : \E value \in SettingValues(field) :
       handleFieldChange(field, value)
  \/ \E p \in StopPoints : ResumeStop(p)
  \/ \E p \in StopPoints : CloseRejected(p)
  \/ \E k \in Gens : OnOpen(k)
  \/ \E k \in Gens : DeliverMessage(k)
  \/ \E i \in 1..MaxChunks : DecodeDone(i)
  \/ \E i \in 1..MaxChunks : OnEnded(i)
  \/ \E k \in Gens : OnError(k)
  \/ \E k \in Gens : OnClose(k)
  \/ SyncStatusRef
  \/ LifeTick

SpecTeardown == Init /\ [][NextTeardown]_vars

\* SpecCapture, the microphone frames of the first session.
NextCapture ==
  \/ FirstStart
  \/ \E k \in Gens : MicGranted(k)
  \/ \E k \in Gens : OnOpen(k)
  \/ \E inputData \in Frames : posted < CaptureOps /\ OnAudioProcess(inputData)
  \/ stopConversation
  \/ \E p \in StopPoints : ResumeStop(p)

SpecCapture == Init /\ [][NextCapture]_vars

\* SpecSend, outbound operations over two sessions: silent frames and
\* batches of one call to an undeclared tool, stops and restarts.
Silence == [i \in 1..1 |-> 0]

DeliverUnknownCall(k) ==
  \E m \in ToolMessages({"unknown_tool"}) : Len(m.calls) = 1 /\ OnMessage(k, m)

NextSend ==
  \/ startConversation
  \/ \E k \in Gens : MicGranted(k)
  \/ \E k \in Gens : OnOpen(k)
  \/ OnAudioProcess(Silence)
  \/ \E k \in Gens : DeliverUnknownCall(k)
  \/ stopConversation
  \/ \E p \in StopPoints : ResumeStop(p)

SpecSend == Init /\ [][NextSend]_vars

\* SpecDrain, playback in a session that stays active: audio chunks and
\* Interrupted messages, no stop, close or error.  The clock of a running
\* context keeps advancing while a source plays, a decode in flight
\* completes and the ended event of a source that has finished or has been
\* stopped is delivered.
PlayTick ==
  /\ \E i \in DOMAIN chunks : chunks[i].st = "playing" /\ now < chunks[i].start + chunks[i].dur
  /\ now' = now + 1
  /\ UNCHANGED <<sessVars, settings, refVars, resVars, chunks, audioSources,
                 nextStartTime, toolVars, textVars, histVars>>

NextDrain ==
  \/ FirstStart
  \/ \E k \in Gens : MicGranted(k)
  \/ \E k \in Gens : OnOpen(k)
  \/ \E k \in Gens : DeliverAudio(k)
  \/ \E i \in 1..MaxChunks : DecodeDone(i)
  \/ \E i \in 1..MaxChunks : OnEnded(i)
  \/ Tick
  \/ PlayTick

SpecDrain ==
  /\ Init /\ [][NextDrain]_vars
  /\ \A i \in 1..MaxChunks : WF_vars(DecodeDone(i)) /\ WF_vars(OnEnded(i))
  /\ WF_vars(PlayTick)

\* SpecPrompt, two starts with stops made only while a start() waits for
\* the microphone permission: silent frames, no stop ever waits for a
\* connection to open.
StopWhileAsking ==
  /\ \E k \in Gens : mic[k] = "pending"
  /\ sessionPromiseRef = 0
  /\ stopConversation

NextPrompt ==
  \/ startConversation
  \/ \E k \in Gens : MicGranted(k)
  \/ \E k \in Gens : OnOpen(k)
  \/ OnAudioProcess(Silence)
  \/ \E k \in Gens : DeliverUnknownCall(k)
  \/ StopWhileAsking
  \/ \E p \in StopPoints : ResumeStop(p)

SpecPrompt == Init /\ [][NextPrompt]_vars

\* SpecHistory, the two lists over two sessions: fragments of the
\* assistant's speech and TurnComplete, batches of one incident call with
\* its args, stops, connection errors, a start() once the teardown of
\* the session before has finished, and the clearing of the history.
QuietStart ==
  /\ StopsInFlight = 0
  /\ \A k \in Gens : conn[k] \notin {"connecting", "open"} /\ mic[k] # "pending"
  /\ startConversation

DeliverSpeech(k) ==
  \E m \in TextMessages : m.input = <<>> /\ m.output \in {<<>>, <<"a">>} /\ OnMessage(k, m)

DeliverOneCall(k) ==
  \E m \in ToolMessages({"record_safety_incident"}) :
    /\ Len(m.calls) = 1
    /\ m.calls[1].args # NoArgs /\ m.calls[1].args.description = "rockfall"
    /\ OnMessage(k, m)

NextHistory ==
  \/ QuietStart
  \/ \E k \in Gens : MicGranted(k)
  \/ \E k \in Gens : OnOpen(k)
  \/ \E k \in Gens : DeliverSpeech(k)
  \/ \E k \in Gens : DeliverOneCall(k)
  \/ stopConversation
  \/ \E p \in StopPoints : ResumeStop(p)
  \/ \E k \in Gens : OnError(k)
  \/ Render
  \/ handleClearHistory

SpecHistory == Init /\ [][NextHistory]_vars

\* SpecFault, a processing fault within the first session: tool calls of one
\* declared tool, with and without args, and audio chunks of one tick.
DeliverFaulty(k) ==
  \E m \in ToolMessages({"send_sms_alert"}) \cup {Message(FALSE, <<>>, 1)} :
    (m.audio > 0 => Len(chunks) < LifeChunks) /\ OnMessage(k, m)

NextFault ==
  \/ FirstStart
  \/ \E k \in Gens : MicGranted(k)
  \/ \E k \in Gens : OnOpen(k)
  \/ \E k \in Gens : DeliverFaulty(k)
  \/ \E i \in 1..MaxChunks : DecodeDone(i)
  \/ \E i \in 1..MaxChunks : OnEnded(i)
  \/ stopConversation
  \/ \E p \in StopPoints : ResumeStop(p)
  \/ \E k \in Gens : OnClose(k)
  \/ SyncStatusRef
  \/ LifeTick
  \/ Render

SpecFault == Init /\ [][NextFault]_vars

\* SpecStop, the first session with its stop: a suspended stopConversation()
\* resumes once what it awaits has settled, and getUserMedia settles; whether
\* the connection ever opens, fails or closes is left to the network.
NextStop ==
  \/ FirstStart
  \/ \E k \in Gens : MicGranted(k)
  \/ \E k \in Gens : OnOpen(k)
  \/ \E k \in Gens : DeliverMessage(k)
  \/ \E i \in 1..MaxChunks : DecodeDone(i)
  \/ \E i \in 1..MaxChunks : OnEnded(i)
  \/ stopConversation
  \/ \E p \in StopPoints : ResumeStop(p)
  \/ \E k \in Gens : OnClose(k)
  \/ SyncStatusRef
  \/ LifeTick

SpecStop ==
  /\ Init /\ [][NextStop]_vars
  /\ \A p \in StopPoints : WF_vars(ResumeStop(p))
  /\ WF_vars(\E k \in Gens : MicGranted(k))

\* ---- claims ----

\* C1: after stop() has been called and no start() has followed, the status
\* is IDLE, whatever callbacks are delivered afterwards.
C1_StopStaysIdle == sinceStart = "user" => status = "IDLE"

\* C2: when the microphone is refused during the first start(), the status
\* is never LISTENING while start() waits, and once the catch clause and the
\* teardown it triggers have finished the status is ERROR with a message set.
C2_MicDeniedEndsInError ==
  (nStarts = 1 /\ sinceStart # "user") =>
    /\ mic[1] = "pending" => status # "LISTENING"
    /\ (mic[1] = "denied" /\ StopsInFlight = 0) => (status = "ERROR" /\ error # ErrNull)

\* C3: a start() that follows a stop() made while LISTENING or SPEAKING keeps
\* its resources as long as nothing stops it: its audio contexts stay open and
\* referenced, its microphone stream and session promise stay referenced once
\* acquired, and the status is LISTENING or SPEAKING once its connection is open.
C3_RestartKeepsResources ==
  (stopFrom \in {"LISTENING", "SPEAKING"} /\ nStarts >= 2 /\ sinceStart = "none") =>
    LET k == nStarts IN
      /\ inCtx[k] = "running" /\ outCtx[k] = "running"
      /\ inputAudioContextRef = k /\ outputAudioContextRef = k
      /\ mic[k] = "live" => (mediaStreamRef = k /\ sessionPromiseRef = k)
      /\ conn[k] = "open" => status \in {"LISTENING", "SPEAKING"}

C5_CleanCloseIsSilent ==
  [][ (\E k \in Gens : /\ k = nStarts
                       /\ conn[k] = "closing"
                       /\ conn'[k] = "closed"
                       /\ sinceStart = "user")
      => (error' = error /\ status' # "ERROR") ]_vars

\* C6: every change of the status is one of the allowed transitions.
AllowedTransition(s, t) ==
  \/ s \in {"IDLE", "ERROR"} /\ t = "CONNECTING"
  \/ s = "CONNECTING" /\ t = "LISTENING"
  \/ s = "LISTENING" /\ t = "SPEAKING"
  \/ s = "SPEAKING" /\ t = "LISTENING"
  \/ t = "ERROR"
  \/ s # "IDLE" /\ t = "IDLE"

C6_OnlyAllowedTransitions ==
  [][ status' # status => AllowedTransition(status, status') ]_vars

\* C7: at most one connection is open or being opened and at most one
\* microphone stream is live.
C7_AtMostOneSession ==
  /\ Cardinality({k \in Gens : conn[k] \in {"connecting", "open"}}) <= 1
  /\ Cardinality({k \in Gens : mic[k] = "live"}) <= 1


\* C8: of two chunks that arrived one after the other with no Interrupted and
\* no stop() since, both started, the later starts no earlier than the end of
\* the earlier: start[i+1] >= start[i] + duration[i].
Started(i) == chunks[i].st \in {"playing", "stopped", "ended"}

C8_NoOverlapInArrivalOrder ==
  \A i \in sinceReset :
    (i + 1 \in sinceReset /\ Started(i) /\ Started(i + 1)) =>
      chunks[i + 1].start >= chunks[i].start + chunks[i].dur

\* C9: the step that handles an Interrupted event stops every source of the
\* pending set, empties the set and resets the cursor to 0; and the next
\* chunk to arrive after it, once started, has been started at the device
\* clock's time of its arrival.
InterruptedHandled ==
  /\ mark' # mark /\ mark' >= 0
  => /\ audioSources' = {}
     /\ nextStartTime' = 0
     /\ \A i \in audioSources : chunks'[i].st = "stopped"

NextChunkStartsNow ==
  LET i == mark + 1 IN
    (mark >= 0 /\ i \in sinceReset /\ Started(i)) => chunks[i].start = chunks[i].at

C9_InterruptedFlushes == [][InterruptedHandled]_vars /\ []NextChunkStartsNow

\* C10: every tool-call batch received while the session is LISTENING or
\* SPEAKING is answered by exactly one outbound tool response, which carries
\* one result per call with the ids of the calls in order; no call id is
\* answered twice and no id is answered that was not requested.
Ids(xs) == [i \in DOMAIN xs |-> xs[i].id]

ToolResponses == SelectSeq(outbox, LAMBDA op : op.kind = "toolResponse")

C10_OneResponsePerBatch ==
  /\ \A b \in DOMAIN toolLog :
       toolLog[b].st \in {"LISTENING", "SPEAKING"} =>
         Cardinality({r \in DOMAIN ToolResponses :
                        Ids(ToolResponses[r].responses) = Ids(toolLog[b].calls)}) = 1
  /\ \A r1, r2 \in DOMAIN ToolResponses :
       \A i \in DOMAIN ToolResponses[r1].responses :
         \A j \in DOMAIN ToolResponses[r2].responses :
           (ToolResponses[r1].responses[i].id = ToolResponses[r2].responses[j].id)
             => (r1 = r2 /\ i = j)
  /\ \A r \in DOMAIN ToolResponses :
       \E b \in DOMAIN toolLog : Ids(ToolResponses[r].responses) = Ids(toolLog[b].calls)

\* C11: when a batch is received while the session is LISTENING or SPEAKING
\* and one of its calls faults (it carries no args), the status stays as it
\* is and one tool response is sent that answers every call of the batch.
FaultyBatchReceived ==
  /\ Len(toolLog') = Len(toolLog) + 1
  /\ \E i \in DOMAIN toolLog'[Len(toolLog')].calls : Faults(toolLog'[Len(toolLog')].calls[i])
  /\ status \in {"LISTENING", "SPEAKING"}

C11_ToolFaultKeepsSession ==
  [][ FaultyBatchReceived =>
        /\ status' = status
        /\ Len(outbox') = Len(outbox) + 1
        /\ Ids(outbox'[Len(outbox')].responses) = Ids(toolLog'[Len(toolLog')].calls) ]_vars

\* C12: once a fault has been caught while processing a message, and until
\* the next start() or stop(), the status is ERROR and an error message is
\* shown, whatever message or playback-ended callback comes later.
C12_FaultIsFatal ==
  (sinceStart = "internal" /\ \E b \in DOMAIN toolLog :
                                \E i \in DOMAIN toolLog[b].calls : Faults(toolLog[b].calls[i]))
    => (status = "ERROR" /\ error # ErrNull)

\* C13: the step that handles a TurnComplete hands React at most one user
\* turn and at most one assistant turn, none for an accumulator that is empty
\* or blank, and leaves both accumulators of its session empty; and the turns
\* in the transcript list, with those still to be rendered, are one user turn
\* per TurnComplete that closed a non-blank input and one assistant turn per
\* TurnComplete that closed a non-blank output.
Blank(t) == \A i \in DOMAIN t : t[i] = " "

TurnsOf(speaker, turns) == Len(SelectSeq(turns, LAMBDA t : t.speaker = speaker))

TurnCompleteHandled ==
  Len(turnLog') = Len(turnLog) + 1 =>
    LET closed == turnLog'[Len(turnLog')]
        new == RenderedTurns(SubSeq(updates', Len(updates) + 1, Len(updates')))
    IN /\ TurnsOf("user", new) = IF Blank(closed.input) THEN 0 ELSE 1
       /\ TurnsOf("bot", new) = IF Blank(closed.output) THEN 0 ELSE 1
       /\ currentInput'[closed.sess] = <<>>
       /\ currentOutput'[closed.sess] = <<>>

TurnCounts ==
  LET all == transcripts \o RenderedTurns(updates) IN
    /\ TurnsOf("user", all) = Cardinality({t \in DOMAIN turnLog : ~Blank(turnLog[t].input)})
    /\ TurnsOf("bot", all) = Cardinality({t \in DOMAIN turnLog : ~Blank(turnLog[t].output)})

C13_OneTurnPerDirection == [][TurnCompleteHandled]_vars /\ []TurnCounts

\* A TurnComplete that closed a non-blank input and a blank, non-empty output
\* has been handled and rendered: one turn in the list.
C13_Witness ==
  /\ updates = <<>>
  /\ Len(transcripts) = 1
  /\ \E t \in DOMAIN turnLog :
       ~Blank(turnLog[t].input) /\ turnLog[t].output # <<>> /\ Blank(turnLog[t].output)

\* C14: the user and assistant turns of the transcript list are, in order,
\* those of the TurnCompletes handled: for each, the user turn (if its input
\* is not blank) before the assistant turn, each with the trimmed
\* concatenation of the fragments of its direction since the previous
\* TurnComplete.
RECURSIVE ExpectedTurns(_)
ExpectedTurns(log) ==
  IF log = <<>> THEN <<>>
  ELSE (IF Blank(Head(log).input) THEN <<>>
        ELSE <<[speaker |-> "user", text |-> Trim(Head(log).input)]>>)
       \o (IF Blank(Head(log).output) THEN <<>>
           ELSE <<[speaker |-> "bot", text |-> Trim(Head(log).output)]>>)
       \o ExpectedTurns(Tail(log))

IsPrefix(a, b) == Len(a) <= Len(b) /\ a = SubSeq(b, 1, Len(a))

C14_TurnsCarryTheirText ==
  IsPrefix(SelectSeq(transcripts, LAMBDA t : t.speaker # "system"), ExpectedTurns(turnLog))

\* C15: every call named record_safety_incident that carries a description
\* and a location has exactly one incident record with that description,
\* that location and a timestamp; no other call has one; and the result sent
\* for such a call is 'Incident recorded successfully.' under the call's id.
CallsReceived ==
  {c \in (DOMAIN toolLog) \X (1..MaxCalls) : c[2] \in DOMAIN toolLog[c[1]].calls}

CallAt(c) == toolLog[c[1]].calls[c[2]]

IncidentCalls ==
  {c \in CallsReceived :
     CallAt(c).name = "record_safety_incident" /\ CallAt(c).args # NoArgs}

ResultsSent ==
  {r \in (DOMAIN ToolResponses) \X (1..MaxCalls) : r[2] \in DOMAIN ToolResponses[r[1]].responses}

ResultAt(r) == ToolResponses[r[1]].responses[r[2]]

C15_IncidentRecorded ==
  LET incidents == incidentReports \o RenderedIncidents(updates) IN
    /\ Len(incidents) = Cardinality(IncidentCalls)
    /\ \A a \in ArgValues \ {NoArgs} :
         Cardinality({n \in DOMAIN incidents :
                        /\ "timestamp" \in DOMAIN incidents[n]
                        /\ incidents[n].description = a.description
                        /\ incidents[n].location = a.location})
           = Cardinality({c \in IncidentCalls : CallAt(c).args = a})
    /\ \A c \in IncidentCalls : \A r \in ResultsSent :
         ResultAt(r).id = CallAt(c).id =>
           ResultAt(r).result = "Incident recorded successfully."

\* C16: every call whose name is not a declared tool, in a batch received
\* while the session is LISTENING or SPEAKING, has exactly one result sent
\* under its id, 'Action completed.'; every such call has one system
\* transcript turn; and a batch of such calls leaves the status as it is.
UnknownCalls == {c \in CallsReceived : CallAt(c).name \notin DeclaredTools}

UnknownAnswered ==
  /\ \A c \in UnknownCalls :
       toolLog[c[1]].st \in {"LISTENING", "SPEAKING"} =>
         /\ Cardinality({r \in ResultsSent : ResultAt(r).id = CallAt(c).id}) = 1
         /\ \A r \in ResultsSent :
              ResultAt(r).id = CallAt(c).id => ResultAt(r).result = "Action completed."
  /\ Cardinality(UnknownCalls)
       = Len(SelectSeq(transcripts \o RenderedTurns(updates),
                       LAMBDA t : t.speaker = "system" /\ t.text = <<"unknown_tool">>))

UnknownKeepsStatus ==
  (/\ Len(toolLog') = Len(toolLog) + 1
   /\ \A i \in DOMAIN toolLog'[Len(toolLog')].calls :
        toolLog'[Len(toolLog')].calls[i].name \notin DeclaredTools)
    => status' = status

C16_UnknownToolFallsBack == [][UnknownKeepsStatus]_vars /\ []UnknownAnswered

\* C17: a stopConversation() called while the status is IDLE, no ref holds
\* a resource and the pending set is empty changes nothing: status, error
\* message, transcript and incident lists, refs, connections, contexts,
\* streams, pending set and suspended calls stay as they are and the cursor
\* is 0 before and after, so that a second call finds the same state.
NoResources ==
  /\ sessionPromiseRef = 0 /\ mediaStreamRef = 0 /\ scriptProcessorRef = 0
  /\ inputAudioContextRef = 0 /\ outputAudioContextRef = 0
  /\ audioSources = {}

SettingsStop ==
  /\ statusRef \notin {"IDLE", "ERROR"}
  /\ \E field \in SettingFields \ {"avatarTheme"} : \E value \in SettingValues(field) :
       handleFieldChange(field, value)

C17_StopWhenIdleIsNoOp ==
  [][ (SettingsStop /\ status = "IDLE" /\ NoResources) =>
        /\ UNCHANGED <<sessVars, refVars, resVars, playVars, toolVars, textVars>>
        /\ nextStartTime = 0 ]_vars

\* The microphone was refused, the teardown of the catch clause has finished,
\* and stopConversation() has been called again through handleSettingsChange
\* with the status IDLE.
C17_Witness ==
  /\ status = "IDLE" /\ NoResources /\ StopsInFlight = 0
  /\ mic[1] = "denied" /\ inCtx[1] = "closed" /\ outCtx[1] = "closed"
  /\ stopFrom = "IDLE"

\* C19: when the first start() fails to open the connection (the code around
\* connect throws, or the error callback fires before the connection opens)
\* and nothing else stops the session, then once no teardown step is left to
\* run the status is ERROR, an error message is set, the microphone stream is
\* stopped, both contexts are closed and every ref is cleared.
ConnectFailed ==
  /\ nStarts = 1 /\ sinceStart = "internal" /\ 1 \notin opened
  /\ \/ conn[1] = "erred"
     \/ error = ErrStart /\ mic[1] # "denied"

TeardownQuiet ==
  \A p \in StopPoints : stops[p] > 0 => (p[1] = "awaitSession" /\ p[2] \notin opened)

C19_ConnectFailureEndsInError ==
  (ConnectFailed /\ TeardownQuiet) =>
    /\ status = "ERROR" /\ error # ErrNull
    /\ mic[1] # "live" /\ inCtx[1] = "closed" /\ outCtx[1] = "closed"
    /\ NoResources

\* C20: when the promise of inputAudioContext.close() rejects, the teardown
\* goes on: the output context the ref holds is closed.
C20_TeardownIsBestEffort ==
  [][ CloseRejected(<<"awaitIn", 0>>) =>
        (outputAudioContextRef # 0 => outCtx'[outputAudioContextRef] = "closed") ]_vars

\* C18: the step that starts a chunk starts it at the larger of the cursor
\* and the device clock, and leaves the cursor at that start time plus the
\* duration of the chunk.
C18_StartsAtMaxOfCursorAndClock ==
  [][ \A i \in DOMAIN chunks :
        (chunks[i].st = "decoding" /\ chunks'[i].st = "playing") =>
          /\ chunks'[i].start = Max(nextStartTime, now)
          /\ nextStartTime' = chunks'[i].start + chunks[i].dur ]_vars

\* C21: once stop() has been called, the microphone stream is eventually
\* stopped and both audio contexts are eventually closed, whether or not the
\* connection ever opens.
DevicesReleased ==
  \A k \in Gens : mic[k] \notin {"pending", "live"} /\ inCtx[k] # "running" /\ outCtx[k] # "running"

C21_StopReleasesDevices == (sinceStart = "user") ~> DevicesReleased

\* C22: while the handling of an audio message is suspended in its decode,
\* no step changes the cursor, the pending set or the status.
C22_HandlersAreSerialized ==
  [][ (\E i \in DOMAIN chunks : chunks[i].st = "decoding" /\ chunks'[i].st = "decoding")
        => UNCHANGED <<nextStartTime, audioSources, status>> ]_vars

\* C28: a step that is neither the handling of an Interrupted event nor a
\* stop() does not lower the cursor, and the cursor is never negative.
ResetStep == stopConversation \/ \E k \in Gens : OnMessage(k, Interrupted)

C28_CursorIsMonotone ==
  [][ ~ResetStep => nextStartTime' >= nextStartTime ]_vars /\ [](nextStartTime >= 0)

\* Two chunks have been started since the last reset and the clock has
\* advanced: the cursor has moved up twice.
C28_Witness ==
  /\ now > 0
  /\ \E i, j \in sinceReset : i # j /\ Started(i) /\ Started(j)
  /\ nextStartTime >= 2

\* C30: no chunk that arrived before the last Interrupted event is playing
\* or in the pending set.
C30_NoStartAfterInterrupted ==
  mark >= 0 => \A i \in 1..mark : chunks[i].st # "playing" /\ i \notin audioSources

\* C26: handling a tool-call batch appends exactly one system transcript
\* turn per call of the batch in the step that receives it, and leaves the
\* user and assistant accumulators as they were.
SystemTurnsIn(us) ==
  Len(SelectSeq(us, LAMBDA u : u.kind = "transcript" /\ u.speaker = "system"))

C26_SystemTurnPerCall ==
  [][ toolLog' # toolLog =>
        /\ SystemTurnsIn(updates') = SystemTurnsIn(updates) + Len(toolLog'[Len(toolLog')].calls)
        /\ UNCHANGED <<currentInput, currentOutput>> ]_vars

\* C29: a change of the voice, the language or the name made while the
\* status reference is neither IDLE nor ERROR stops the running session
\* (status IDLE, pending set empty, cursor 0, a stop of the user on record);
\* a change of the avatar theme only, or any change made while the status
\* reference is IDLE or ERROR, replaces the settings and touches nothing else.
SettingsChanged ==
  \E field \in SettingFields : \E value \in SettingValues(field) :
    handleFieldChange(field, value)

RestartFieldChanged ==
  \/ settings'.voice # settings.voice
  \/ settings'.language # settings.language
  \/ settings'.name # settings.name

C29_SettingsChangeStops ==
  [][ SettingsChanged =>
        IF RestartFieldChanged /\ statusRef \notin {"IDLE", "ERROR"}
        THEN /\ status' = "IDLE" /\ audioSources' = {} /\ nextStartTime' = 0
             /\ sinceStart' = "user" /\ stopFrom' = status
        ELSE UNCHANGED <<sessVars, refVars, resVars, playVars, toolVars, textVars,
                         histVars>> ]_vars

\* The avatar theme was changed during the session without ending it, then
\* a change of the voice ended it from an active status.
C29_Witness ==
  /\ settings.avatarTheme # DefaultSettings.avatarTheme
  /\ settings.voice # DefaultSettings.voice
  /\ settings.name = DefaultSettings.name /\ settings.language = DefaultSettings.language
  /\ status = "IDLE" /\ sinceStart = "user" /\ stopFrom \in {"LISTENING", "SPEAKING"}
  /\ conn[1] = "closing"

\* C23: every sample of a frame handed to the transport is the scaled
\* sample, truncated, clamped to -32768..32767: a sample of +1.0 is sent as
\* 32767 and no positive sample is sent as a negative number.
Saturated(v) == IF v > 32767 THEN 32767 ELSE IF v < -32768 THEN -32768 ELSE v

AudioOps == SelectSeq(outbox, LAMBDA op : op.kind = "audio")

C23_SamplesSaturate ==
  \A j \in DOMAIN AudioOps : \A i \in DOMAIN AudioOps[j].samples :
    AudioOps[j].data[i] = Saturated(TruncDiv(AudioOps[j].samples[i] * 32768, SampleDen))

\* C25: the operations a session has received are in the order in which
\* they were issued, and so are the operations queued on a pending promise,
\* which reach the session before anything issued after it opened.
InOrder(ops) == \A i, j \in DOMAIN ops : i < j => ops[i].seq < ops[j].seq

OpsOf(k) == SelectSeq(outbox, LAMBDA op : op.sess = k)

C25_SendOrderKept ==
  \A k \in Gens : InOrder(OpsOf(k) \o thens[k])

\* While the promise of the second session is pending, a frame, a tool
\* response and a frame have been issued in this order and wait on it.
C25_Witness ==
  /\ conn[2] = "connecting" /\ sessionPromiseRef = 2 /\ posted = 3
  /\ Len(thens[2]) = 3
  /\ thens[2][1].kind = "audio" /\ thens[2][1].seq = 1
  /\ thens[2][2].kind = "toolResponse" /\ thens[2][2].seq = 2
  /\ thens[2][3].kind = "audio" /\ thens[2][3].seq = 3

\* C24: the teardown steps of one stopConversation() call take effect in
\* the order sources, visualization, connection, microphone, processor,
\* contexts, whether the call runs through at once or resumes after an
\* await: a call made in this state, and every suspended call when it
\* resumes, carries out its steps in that order.
Rank(step) ==
  CASE step = "sources" -> 1
    [] step = "visualization" -> 2
    [] step = "connection" -> 3
    [] step = "microphone" -> 4
    [] step = "processor" -> 5
    [] step = "contexts" -> 6

InRank(log) == \A i, j \in DOMAIN log : i < j => Rank(log[i]) <= Rank(log[j])

BeforeSession == <<"sources", "visualization">>

C24_TeardownOrder ==
  /\ InRank(StopSession(StopVisualization(StopSources(Heap))).log)
  /\ \A k \in Gens :
       stops[<<"awaitSession", k>>] > 0 /\ k \in opened
         => InRank(BeforeSession \o StopCloseSession(Heap, k).log)
  /\ stops[<<"awaitIn", 0>>] > 0 => InRank(<<"contexts">> \o StopCloseOutput(Heap).log)

\* A stop() called on an open session with a live microphone, a processor
\* and running contexts has carried out the six steps and waits for the
\* input context to close.
C24_Witness ==
  /\ sinceStart = "user" /\ stopFrom \in {"LISTENING", "SPEAKING"}
  /\ conn[1] = "closing" /\ mic[1] = "stopped" /\ scriptProcessorRef = 0
  /\ inCtx[1] = "closed" /\ stops[<<"awaitIn", 0>>] = 1

\* C27: a chunk that finishes playing leaves the pending set, and in a
\* session that stays active a status of SPEAKING is eventually followed by
\* LISTENING, also when an Interrupted message emptied the pending set.
EndedLeavesSet == \A i \in DOMAIN chunks : chunks[i].st = "ended" => i \notin audioSources

C27_SpeakingDrains ==
  /\ []EndedLeavesSet
  /\ (status = "SPEAKING") ~> (status = "LISTENING" /\ audioSources = {})

\* The first chunk was stopped by an Interrupted message before its end,
\* its ended event was delivered and the status is LISTENING.
C27_Witness ==
  /\ status = "LISTENING" /\ audioSources = {} /\ mark >= 1
  /\ chunks[1].st = "ended" /\ now < chunks[1].start + chunks[1].dur

\* C31: whenever the pending set holds a source the status is SPEAKING; in
\* particular a chunk whose decode completes after an ended event found the
\* set empty does not play under the status LISTENING.
C31_PendingMeansSpeaking == audioSources # {} => status = "SPEAKING"

\* C32: whenever the status is IDLE or ERROR, no start() waits for the
\* microphone and no stopConversation() call is suspended, no microphone
\* stream is live, no connection is open or being opened and no audio
\* context is open, also when stop() was called while start() was waiting
\* for the microphone permission.
StartInProgress == \E k \in Gens : mic[k] = "pending"

NothingHeld ==
  \A k \in Gens :
    /\ mic[k] # "live"
    /\ conn[k] \notin {"connecting", "open"}
    /\ inCtx[k] # "running" /\ outCtx[k] # "running"

C32_IdleHoldsNothing ==
  (status \in {"IDLE", "ERROR"} /\ ~StartInProgress /\ StopsInFlight = 0) => NothingHeld

\* C33: whenever the status is ERROR an error message is set, and start()
\* clears the message in the step that moves the status to CONNECTING.
C33_ErrorHasMessage ==
  /\ [](status = "ERROR" => error # ErrNull)
  /\ [][ nStarts' # nStarts => (status' = "CONNECTING" /\ error' = ErrNull) ]_vars

\* The first start() was refused the microphone and left its message; the
\* second start() cleared it, and its connection then failed.
C33_Witness ==
  /\ nStarts = 2 /\ mic[1] = "denied"
  /\ status = "ERROR" /\ error = ErrConnection

\* C34: no operation is issued to a session on which stopConversation()
\* has called close(), and every audio frame a session has received was
\* captured by the processor its own onopen created, never by that of an
\* earlier session.
IssuedToClosed ==
  posted' # posted /\ sessionPromiseRef \in opened /\ conn[sessionPromiseRef] = "closing"

OwnFrames ==
  \A i \in DOMAIN outbox : outbox[i].kind = "audio" => outbox[i].proc = outbox[i].sess

C34_NoSendAfterStop == [][~IssuedToClosed]_vars /\ []OwnFrames

\* C35: every incident record stored, or queued for the next render, comes
\* from a record_safety_incident call whose result has been handed to the
\* session: there are no more records than such calls with a result sent.
AnsweredIncidentCalls ==
  {c \in IncidentCalls : \E r \in ResultsSent : ResultAt(r).id = CallAt(c).id}

C35_IncidentOnlyIfAnswered ==
  Len(incidentReports) + Len(RenderedIncidents(updates)) <= Cardinality(AnsweredIncidentCalls)

\* C36: the transcript list and the incident list only grow at their end:
\* every step other than the clearing of the history keeps the entries of
\* both lists as they are and in place, and the clearing of the history
\* empties both.
C36_ListsAppendOnly ==
  [][ IF handleClearHistory
      THEN transcripts' = <<>> /\ incidentReports' = <<>>
      ELSE IsPrefix(transcripts, transcripts') /\ IsPrefix(incidentReports, incidentReports')
    ]_vars

\* Entries of both lists written during the first session are in place
\* after a stop and a second start, with a later turn appended.
C36_Witness ==
  /\ nStarts = 2 /\ conn[2] = "open"
  /\ Len(transcripts) >= 2 /\ incidentReports # <<>>
  /\ transcripts[1].speaker = "system"
  /\ Len(turnLog) >= 1 /\ turnLog[Len(turnLog)].sess = 2
====
